---------------------------- MODULE Spec2Model ----------------------------
(***************************************************************************)
(* A model of galafis/rust-order-execution-engine:                         *)
(*   src/src/types/mod.rs     Order, Trade, ExecutionMetrics               *)
(*   src/src/matching/mod.rs  OrderBook (add_order, match_orders,          *)
(*                            cancel_order, best_bid, best_ask, depth)     *)
(*   src/src/engine/mod.rs    ExecutionEngine (start, stop, submit_order,  *)
(*                            cancel_order, the worker task, process_order,*)
(*                            process_cancel)                              *)
(*                                                                         *)
(* Three specifications share the variables:                               *)
(*   Spec      the engine: callers, the bounded command queue, the worker  *)
(*             tasks, with a small order domain;                           *)
(*   BookSpec  the worker's dispatch arms applied command after command    *)
(*             (every state is a command boundary), with the full order    *)
(*             domain;                                                     *)
(*   ApiSpec   the public methods of one OrderBook (add_order,             *)
(*             match_orders, cancel_order) called in any order.            *)
(*                                                                         *)
(* Prices.  An f64 price is modelled as an integer count of sub-ticks,     *)
(* SubTicks of them to one book tick, so that the cast                     *)
(* (price * 100.0) as u64 of add_order truncates as it does in the code.   *)
(* A trade's f64 price (tick / 100.0) is the tick expressed in sub-ticks.  *)
(* Option<T> is a sequence of length at most one.                          *)
(*                                                                         *)
(* Not modelled: Uuid values (ids are the integers 1, 2, ... in the order  *)
(* the orders are constructed), timestamps, client_id, stop_price (no code *)
(* path reads them), log output.                                           *)
(***************************************************************************)
EXTENDS Integers, Sequences, FiniteSets, TLC

\* ------------------------------------------------------------------ bounds
\* Orders constructed over a run (ids 1..MaxOrders).
MaxOrders == 3
\* Orders submitted to the engine over a run of Spec.
MaxSubmits == 2
\* The capacity of the command channel (bounded(10000) in the code).
QueueCap == 2
\* Worker tasks spawned over a run of Spec.
MaxWorkers == 2
\* Sub-ticks per book tick (the resolution of an f64 price below one tick).
SubTicks == 2
\* The longest latency sample buffer of PercentileSpec, and the longest one
\* of which every content over Latencies is tried.
MaxSamples == 25
MaxEnumLen == 4

\* The symbols, quantities and prices (in sub-ticks) the inputs are drawn
\* from: the prices are tick 1, tick 1 plus a fraction of a tick, and tick 2.
Symbols == {"BTCUSD", "ETHUSD"}
Quantities == {0, 1, 2}
Prices == {SubTicks, SubTicks + 1, 2 * SubTicks}
\* The threads that call the engine: every one may call start and stop, the
\* producers also submit_order and cancel_order.
\* The elapsed time of one NewOrder arm that the worker pushes to
\* latency_samples, in microseconds, as measured in Spec and BookSpec (one
\* value: no operation but get_metrics reads the samples), and the values
\* the sample buffers of PercentileSpec are built from.
Elapsed == {1}
Latencies == {1, 2, 3}
Callers == {"t1", "t2"}
Producers == {"t1"}
Workers == 1..MaxWorkers

\* ------------------------------------------------------------------- types
Sides == {"Buy", "Sell"}
OrderTypes == {"Market", "Limit", "StopLoss", "StopLimit"}
OrderStatuses == {"Pending", "PartiallyFilled", "Filled", "Cancelled", "Rejected"}

None == <<>>
Some(x) == <<x>>
is_none(o) == o = <<>>
is_some(o) == o # <<>>
unwrap_or(o, d) == IF o = <<>> THEN d ELSE o[1]

\* Order::new_market
new_market(id, symbol, side, quantity) ==
    [id |-> id, symbol |-> symbol, side |-> side, order_type |-> "Market",
     quantity |-> quantity, price |-> None, filled_quantity |-> 0,
     status |-> "Pending"]

\* Order::new_limit
new_limit(id, symbol, side, quantity, price) ==
    [id |-> id, symbol |-> symbol, side |-> side, order_type |-> "Limit",
     quantity |-> quantity, price |-> Some(price), filled_quantity |-> 0,
     status |-> "Pending"]

\* Order::remaining_quantity: quantity.saturating_sub(filled_quantity)
remaining_quantity(o) ==
    IF o.quantity >= o.filled_quantity THEN o.quantity - o.filled_quantity ELSE 0

\* Order::is_fully_filled
is_fully_filled(o) == o.filled_quantity >= o.quantity

\* Trade::new (id and timestamp are fresh values, not modelled)
new_trade(buy_order_id, sell_order_id, symbol, quantity, price) ==
    [buy_order_id |-> buy_order_id, sell_order_id |-> sell_order_id,
     symbol |-> symbol, quantity |-> quantity, price |-> price]

\* ExecutionMetrics::default (the latency fields are computed on snapshot)
default_metrics ==
    [total_orders |-> 0, filled_orders |-> 0, cancelled_orders |-> 0,
     rejected_orders |-> 0, total_trades |-> 0, total_volume |-> 0]

\* ------------------------------------------------------------ map helpers
\* BTreeMap / HashMap as a function on the set of its keys.
EmptyMap == [k \in {} |-> <<>>]
MapInsert(m, k, v) == [x \in (DOMAIN m) \cup {k} |-> IF x = k THEN v ELSE m[x]]
MapRemove(m, k) == [x \in (DOMAIN m) \ {k} |-> m[x]]
SetMax(S) == CHOOSE x \in S : \A y \in S : y <= x
SetMin(S) == CHOOSE x \in S : \A y \in S : x <= y
Min(a, b) == IF a <= b THEN a ELSE b

RECURSIVE SumSeq(_)
SumSeq(s) == IF s = <<>> THEN 0 ELSE Head(s) + SumSeq(Tail(s))

\* VecDeque::remove(pos)
SeqRemove(s, pos) == [i \in 1..(Len(s) - 1) |-> IF i < pos THEN s[i] ELSE s[i + 1]]

\* ------------------------------------------------------------- OrderBook
\* OrderBook::new
new_book(symbol) == [symbol |-> symbol, bids |-> EmptyMap, asks |-> EmptyMap]

\* (price * 100.0) as u64: the cast truncates toward zero and sends a
\* negative value to 0.
to_tick(p) == IF p < 0 THEN 0 ELSE p \div SubTicks

\* (tick as f64) / 100.0, in sub-ticks
from_tick(t) == t * SubTicks

price_level(order) == to_tick(unwrap_or(order.price, 0))

\* A changed push_back_at: the order is pushed at the front of its level.
push_front_at(ladder, level, order) ==
    MapInsert(ladder, level,
              IF level \in DOMAIN ladder THEN <<order>> \o ladder[level]
                                         ELSE <<order>>)

\* entry(price_level).or_insert_with(VecDeque::new).push_back(order)
push_back_at(ladder, level, order) ==
    MapInsert(ladder, level,
              IF level \in DOMAIN ladder THEN Append(ladder[level], order)
                                         ELSE <<order>>)

\* OrderBook::add_order
add_order(book, order) ==
    IF order.side = "Buy"
    THEN [book EXCEPT !.bids = push_back_at(book.bids, price_level(order), order)]
    ELSE [book EXCEPT !.asks = push_back_at(book.asks, price_level(order), order)]

\* The orders of a level admitted before `o` that still have quantity left
\* when `o` trades (history for the FIFO property; ids are admission order).
Bypassed(level_orders, o) ==
    {level_orders[i].id : i \in {j \in 1..Len(level_orders) :
                                   /\ level_orders[j].id < o.id
                                   /\ remaining_quantity(level_orders[j]) > 0}}

\* The trade price of match_orders: (ask_price as f64) / 100.0
trade_price_of(bid_price, ask_price) == from_tick(ask_price)

\* The order of a level match_orders trades with: front_mut()
front_index(level_orders) == 1

\* A changed trade_quantity_of: the bid's remaining quantity, without the min.
trade_quantity_bid_only(bid, ask) == remaining_quantity(bid)

\* bid.remaining_quantity().min(ask.remaining_quantity())
trade_quantity_of(bid, ask) == Min(remaining_quantity(bid), remaining_quantity(ask))

IdsOf(orders) == [i \in 1..Len(orders) |-> orders[i].id]

\* The inner loop of match_orders (lines 57-95) over the two levels removed
\* from `book` (the book as the outer loop found it).
\* st = [bid_orders, ask_orders, fills, done]: a fill is the trade made and,
\* as history, what the two levels held when it was made and the keys the
\* two ladders had; done collects the orders popped as Filled.
RECURSIVE match_level(_, _, _, _)
match_level(st, bid_price, ask_price, book) ==
    IF st.bid_orders = <<>> \/ st.ask_orders = <<>>
    THEN st
    ELSE
      LET bi == front_index(st.bid_orders)
          ai == front_index(st.ask_orders)
          bid == st.bid_orders[bi]
          ask == st.ask_orders[ai]
          trade_quantity == trade_quantity_of(bid, ask)
          trade_price == trade_price_of(bid_price, ask_price)
          trade == new_trade(bid.id, ask.id, book.symbol, trade_quantity, trade_price)
          bid1 == [bid EXCEPT !.filled_quantity = @ + trade_quantity]
          ask1 == [ask EXCEPT !.filled_quantity = @ + trade_quantity]
          bid2 == [bid1 EXCEPT !.status =
                      IF is_fully_filled(bid1) THEN "Filled" ELSE "PartiallyFilled"]
          ask2 == [ask1 EXCEPT !.status =
                      IF is_fully_filled(ask1) THEN "Filled" ELSE "PartiallyFilled"]
          bid_orders1 == IF is_fully_filled(bid1)
                         THEN SeqRemove(st.bid_orders, bi)
                         ELSE [st.bid_orders EXCEPT ![bi] = bid2]
          ask_orders1 == IF is_fully_filled(ask1)
                         THEN SeqRemove(st.ask_orders, ai)
                         ELSE [st.ask_orders EXCEPT ![ai] = ask2]
          fill == [trade |-> trade, bid_price |-> bid_price, ask_price |-> ask_price,
                   bid_before |-> bid, ask_before |-> ask,
                   bid_after |-> bid2, ask_after |-> ask2,
                   bid_level |-> IdsOf(st.bid_orders), ask_level |-> IdsOf(st.ask_orders),
                   bid_keys |-> DOMAIN book.bids, ask_keys |-> DOMAIN book.asks,
                   bid_bypassed |-> Bypassed(st.bid_orders, bid),
                   ask_bypassed |-> Bypassed(st.ask_orders, ask)]
      IN match_level([bid_orders |-> bid_orders1, ask_orders |-> ask_orders1,
                      fills |-> Append(st.fills, fill),
                      done |-> st.done
                               \cup (IF is_fully_filled(bid1) THEN {bid2} ELSE {})
                               \cup (IF is_fully_filled(ask1) THEN {ask2} ELSE {})],
                     bid_price, ask_price, book)

\* A changed can_match: equal prices do not match.
can_match_strict(bid_price, ask_price) == bid_price > ask_price

\* Whether the outer loop of match_orders takes its matching arm (line 52).
can_match(bid_price, ask_price) == bid_price >= ask_price

\* A changed put_back: the level goes back into the ladder also when empty.
put_back_always(ladder, price, orders) == MapInsert(ladder, price, orders)

\* Put back remaining orders (lines 98-103).
put_back(ladder, price, orders) ==
    IF orders # <<>> THEN MapInsert(ladder, price, orders) ELSE ladder

\* A changed best_ask_key: the last key of asks.
worst_ask_key(asks) == SetMax(DOMAIN asks)

\* The best prices of match_orders (lines 48-49): the last key of bids, the
\* first key of asks.
best_bid_key(bids) == SetMax(DOMAIN bids)
best_ask_key(asks) == SetMin(DOMAIN asks)

\* OrderBook::depth
LadderOrders(ladder) ==
    UNION {{<<k, i>> : i \in 1..Len(ladder[k])} : k \in DOMAIN ladder}
depth(book) == Cardinality(LadderOrders(book.bids)) + Cardinality(LadderOrders(book.asks))

\* What an iteration of the outer loop can consume: the orders and the price
\* levels of the book.
book_size(book) ==
    depth(book) + Cardinality(DOMAIN book.bids) + Cardinality(DOMAIN book.asks)

\* The loop of match_orders has no bound of its own; its evaluation here is
\* cut after MaxRounds iterations of the matching arm, more than a book of
\* MaxOrders orders has orders and levels, and a cut run is flagged.
MaxRounds == 2 * MaxOrders + 2

\* The outer loop of match_orders (lines 46-107).
\* st = [book, fills, done, sizes, cut]: sizes is, as history, the size of the
\* book at the start of each iteration that took the matching arm.
RECURSIVE match_loop(_)
match_loop(st) ==
    IF DOMAIN st.book.bids = {} \/ DOMAIN st.book.asks = {}
    THEN st
    ELSE
      LET bid_price == best_bid_key(st.book.bids)
          ask_price == best_ask_key(st.book.asks)
      IN IF ~can_match(bid_price, ask_price)
         THEN st
         ELSE IF Len(st.sizes) >= MaxRounds
         THEN [st EXCEPT !.cut = TRUE]
         ELSE
           LET r == match_level([bid_orders |-> st.book.bids[bid_price],
                                 ask_orders |-> st.book.asks[ask_price],
                                 fills |-> st.fills, done |-> st.done],
                                bid_price, ask_price, st.book)
               bids1 == put_back(MapRemove(st.book.bids, bid_price), bid_price, r.bid_orders)
               asks1 == put_back(MapRemove(st.book.asks, ask_price), ask_price, r.ask_orders)
           IN match_loop([book |-> [st.book EXCEPT !.bids = bids1, !.asks = asks1],
                          fills |-> r.fills, done |-> r.done,
                          sizes |-> Append(st.sizes, book_size(st.book)),
                          cut |-> FALSE])

\* OrderBook::match_orders: the book after it, the fills in production order
\* (fills[i].trade is the i-th trade returned) and the orders it popped.
match_orders(book) ==
    match_loop([book |-> book, fills |-> <<>>, done |-> {}, sizes |-> <<>>, cut |-> FALSE])

TradesOf(fills) == [i \in 1..Len(fills) |-> fills[i].trade]

\* The first level, in ascending key order (values_mut), holding order_id.
levels_with(ladder, order_id) ==
    {k \in DOMAIN ladder : \E i \in 1..Len(ladder[k]) : ladder[k][i].id = order_id}

\* orders.iter().position(|o| o.id == order_id)
position(orders, order_id) ==
    SetMin({i \in 1..Len(orders) : orders[i].id = order_id})

\* A changed remove_from_level: the order is left in its level.
keep_in_level(ladder, k, pos) == ladder

\* What cancel_order does to the level it found the order in: orders.remove(pos)
\* (the level stays in the map, also when this leaves it empty).
remove_from_level(ladder, k, pos) ==
    [ladder EXCEPT ![k] = SeqRemove(ladder[k], pos)]

\* A changed mark_cancelled: the removed order is handed back as Pending.
mark_pending(order) == [order EXCEPT !.status = "Pending"]

\* order.status = OrderStatus::Cancelled (lines 118, 127)
mark_cancelled(order) == [order EXCEPT !.status = "Cancelled"]

\* OrderBook::cancel_order: the book after it and the Option<Order> returned.
cancel_order(book, order_id) ==
    IF levels_with(book.bids, order_id) # {}
    THEN LET k == SetMin(levels_with(book.bids, order_id))
             pos == position(book.bids[k], order_id)
         IN [book |-> [book EXCEPT !.bids = remove_from_level(book.bids, k, pos)],
             result |-> Some(mark_cancelled(book.bids[k][pos]))]
    ELSE IF levels_with(book.asks, order_id) # {}
    THEN LET k == SetMin(levels_with(book.asks, order_id))
             pos == position(book.asks[k], order_id)
         IN [book |-> [book EXCEPT !.asks = remove_from_level(book.asks, k, pos)],
             result |-> Some(mark_cancelled(book.asks[k][pos]))]
    ELSE [book |-> book, result |-> None]

\* OrderBook::best_bid / best_ask (the price of the extreme key, in sub-ticks)
best_bid(book) ==
    IF DOMAIN book.bids = {} THEN None ELSE Some(from_tick(SetMax(DOMAIN book.bids)))
best_ask(book) ==
    IF DOMAIN book.asks = {} THEN None ELSE Some(from_tick(SetMin(DOMAIN book.asks)))

\* The orders resting in a ladder / a book.
Resting(ladder) == {ladder[ki[1]][ki[2]] : ki \in LadderOrders(ladder)}
RestingIn(book) == Resting(book.bids) \cup Resting(book.asks)

\* ------------------------------------------------------- ExecutionEngine
\* The validation of process_order (lines 130-142): TRUE when the order is
\* rejected.
rejects(order) ==
    \/ order.quantity = 0
    \/ (order.order_type = "Limit" /\ is_none(order.price))

\* A changed book_entry: every symbol shares the first book that was created.
book_entry_shared(books, symbol) ==
    IF DOMAIN books # {} THEN books[CHOOSE s \in DOMAIN books : TRUE]
                         ELSE new_book(symbol)

\* books.entry(symbol).or_insert_with(|| OrderBook::new(symbol))
book_entry(books, symbol) ==
    IF symbol \in DOMAIN books THEN books[symbol] ELSE new_book(symbol)

\* A changed count_order: filled_orders counts every trade.
count_order_per_trade(m, trades) ==
    [m EXCEPT !.total_orders = @ + 1,
              !.total_trades = @ + Len(trades),
              !.total_volume = @ + SumSeq([i \in 1..Len(trades) |->
                                     trades[i].quantity * trades[i].price]),
              !.filled_orders = @ + Len(trades)]

\* The metrics update of process_order (lines 156-165).
count_order(m, trades) ==
    LET m1 == [m EXCEPT !.total_orders = @ + 1]
    IN IF trades # <<>>
       THEN [m1 EXCEPT !.total_trades = @ + Len(trades),
                       !.total_volume = @ + SumSeq([i \in 1..Len(trades) |->
                                              trades[i].quantity * trades[i].price]),
                       !.filled_orders = @ + 1]
       ELSE m1

\* ExecutionEngine::process_order up to the release of the locks (lines
\* 127-168): the books and metrics after it, the fills whose trades it then
\* sends, and the orders match_orders popped.
process_order(order, books, m) ==
    IF rejects(order)
    THEN [books |-> books,
          metrics |-> [m EXCEPT !.rejected_orders = @ + 1],
          fills |-> <<>>, done |-> {}, rejected |-> TRUE]
    ELSE LET book == book_entry(books, order.symbol)
             r == match_orders(add_order(book, order))
         IN [books |-> MapInsert(books, order.symbol, r.book),
             metrics |-> count_order(m, TradesOf(r.fills)),
             fills |-> r.fills, done |-> r.done, rejected |-> FALSE]

\* A changed process_cancel: a cancelled order is taken out of total_orders.
process_cancel_uncounting(order_id, symbol, books, m) ==
    IF symbol \in DOMAIN books /\ is_some(cancel_order(books[symbol], order_id).result)
    THEN [books |-> [books EXCEPT ![symbol] = cancel_order(books[symbol], order_id).book],
          metrics |-> [m EXCEPT !.cancelled_orders = @ + 1, !.total_orders = @ - 1],
          result |-> cancel_order(books[symbol], order_id).result]
    ELSE [books |-> books, metrics |-> m, result |-> None]

\* A changed process_cancel: a cancel that finds nothing is counted too, and
\* an unknown symbol gets a book.
process_cancel_counting_misses(order_id, symbol, books, m) ==
    IF symbol \in DOMAIN books
    THEN [books |-> [books EXCEPT ![symbol] = cancel_order(books[symbol], order_id).book],
          metrics |-> [m EXCEPT !.cancelled_orders = @ + 1],
          result |-> cancel_order(books[symbol], order_id).result]
    ELSE [books |-> MapInsert(books, symbol, new_book(symbol)), metrics |-> m,
          result |-> None]

\* ExecutionEngine::process_cancel (lines 178-197).
process_cancel(order_id, symbol, books, m) ==
    IF symbol \in DOMAIN books
    THEN LET r == cancel_order(books[symbol], order_id)
         IN IF is_some(r.result)
            THEN [books |-> [books EXCEPT ![symbol] = r.book],
                  metrics |-> [m EXCEPT !.cancelled_orders = @ + 1],
                  result |-> r.result]
            ELSE [books |-> books, metrics |-> m, result |-> None]
    ELSE [books |-> books, metrics |-> m, result |-> None]

\* ExecutionEngine::get_order_book
get_order_book(books, symbol) ==
    IF symbol \in DOMAIN books
    THEN Some(<<best_bid(books[symbol]), best_ask(books[symbol]), depth(books[symbol])>>)
    ELSE None

\* samples.sort_unstable(): ascending, by insertion.
RECURSIVE insert_sorted(_, _)
insert_sorted(s, x) ==
    IF s = <<>> THEN <<x>>
    ELSE IF x <= Head(s) THEN <<x>> \o s
    ELSE <<Head(s)>> \o insert_sorted(Tail(s), x)

RECURSIVE sort_unstable(_)
sort_unstable(s) ==
    IF s = <<>> THEN <<>> ELSE insert_sorted(sort_unstable(Tail(s)), Head(s))

\* A changed percentile_index: the index is rounded up.
percentile_index_rounded_up(len, pct) == (len * pct + 99) \div 100

\* The index get_metrics reads for a percentile: (len * pct) / 100, and
\* len / 2 = (len * 50) / 100 for the median (lines 236-238).
percentile_index(len, pct) == (len * pct) \div 100

\* samples[i] (0-based): None stands for the panic of an index out of bounds.
sample_at(samples, i) == IF i < Len(samples) THEN Some(samples[i + 1]) ELSE None

\* ExecutionEngine::get_metrics: the ExecutionMetrics returned (the clone of
\* the counters with the latency fields filled in, which stay 0 on an empty
\* buffer; `panicked` when an index was out of bounds) and the sample buffer
\* it leaves behind, sorted in place.
get_metrics(m, samples) ==
    IF samples = <<>>
    THEN [metrics |-> m, avg_latency_micros |-> 0, p50_latency_micros |-> 0,
          p95_latency_micros |-> 0, p99_latency_micros |-> 0,
          panicked |-> FALSE, samples |-> samples]
    ELSE LET sorted == sort_unstable(samples)
             len == Len(sorted)
             p50 == sample_at(sorted, percentile_index(len, 50))
             p95 == sample_at(sorted, percentile_index(len, 95))
             p99 == sample_at(sorted, percentile_index(len, 99))
         IN [metrics |-> m,
             avg_latency_micros |-> SumSeq(sorted) \div len,
             p50_latency_micros |-> unwrap_or(p50, 0),
             p95_latency_micros |-> unwrap_or(p95, 0),
             p99_latency_micros |-> unwrap_or(p99, 0),
             panicked |-> is_none(p50) \/ is_none(p95) \/ is_none(p99),
             samples |-> sorted]

\* ------------------------------------------------------------------ state
VARIABLES
    order_books,   \* ExecutionEngine.order_books: symbol -> OrderBook
    metrics,       \* ExecutionEngine.metrics (the counters)
    running,       \* ExecutionEngine.running
    queue,         \* the bounded command channel order_sender/order_receiver
    trade_sink,    \* the trades the trade channel accepted, in order
    workers,       \* the worker tasks start() spawned
    callers,       \* the calls of start/stop/submit_order/cancel_order in progress
    next_id,       \* the number of orders constructed so far, plus one
    ledger,        \* history: id -> the last value of the order with that id
    fill_log,      \* history: every fill match_orders made, in order
    cancelled,     \* history: the ids cancel_order returned
    stop_returned, \* history: a stop() has returned, or the engine was never
                   \* started, and no start() has been called since
    stop_clean,    \* history: stop_returned, and no start() was called while
                   \* that stop() was in progress
    last_result,   \* history: what the last submit_order or cancel_order call
                   \* to return since the last start() call or stop() return
                   \* returned ("none", "Ok", "EngineStopped")
    latency_samples, \* ExecutionEngine.latency_samples
    snapshot,      \* the ExecutionMetrics the last get_metrics() returned
    mutexes,       \* the thread holding each Mutex of ExecutionEngine, or "free"
    lock_threads   \* each thread's position in the mutex and channel
                   \* operations of the function it is running

book_vars == <<order_books, metrics, trade_sink, next_id, ledger, fill_log, cancelled>>
history_vars == <<stop_returned, stop_clean, last_result>>
engine_vars == <<running, queue, workers, callers, stop_returned, stop_clean, last_result>>
metrics_vars == <<latency_samples, snapshot>>
lock_vars == <<mutexes, lock_threads>>
vars == <<order_books, metrics, running, queue, trade_sink, workers, callers,
          next_id, ledger, fill_log, cancelled, stop_returned, stop_clean, last_result,
          latency_samples, snapshot, mutexes, lock_threads>>

\* ------------------------------------------------------ mutexes and scripts
\* The five Mutex fields of ExecutionEngine (lines 31-37).
Mutexes == {"order_books", "order_receiver", "metrics", "latency_samples", "running"}

\* The threads that take them: the worker task, a caller of get_metrics, a
\* caller of get_order_book, and a caller of submit_order, cancel_order,
\* start and stop.
LockThreads == {"worker", "snapshot_metrics", "peek_book", "producer"}

\* A script is the sequence of mutex and channel operations of one run of a
\* function, in program order.
Lock(m) == <<"lock", m>>
Unlock(m) == <<"unlock", m>>
ChannelOps == {"recv", "send", "try_send"}
NoScript == [script |-> <<>>, at |-> 0]

\* `*running.lock().unwrap()` in a condition, and start's and stop's guard
\* dropped before anything else is done (lines 63-69, 82, 201, 214, 247-249).
running_check == <<Lock("running"), Unlock("running")>>

\* Lines 87-89: the receiver guard is held across recv_timeout.
receive == <<Lock("order_receiver"), <<"recv", "order_receiver">>, Unlock("order_receiver")>>

\* process_order: a rejection locks metrics for one statement (lines 133,
\* 140); an admission locks books (144), then metrics (156), drops metrics
\* (167), then books (168), and then sends its trades (172).
process_order_ops(rejected, trades) ==
    IF rejected
    THEN <<Lock("metrics"), Unlock("metrics")>>
    ELSE <<Lock("order_books"), Lock("metrics"), Unlock("metrics"), Unlock("order_books")>>
         \o [i \in 1..trades |-> <<"try_send", "trade_sender">>]

\* latency_samples.lock().unwrap().push(latency) (line 102)
push_latency == <<Lock("latency_samples"), Unlock("latency_samples")>>

\* process_cancel: books locked to the end of the function (186-197), metrics
\* for one statement inside it when the order was found (189).
process_cancel_ops(found) ==
    <<Lock("order_books")>>
    \o (IF found THEN <<Lock("metrics"), Unlock("metrics")>> ELSE <<>>)
    \o <<Unlock("order_books")>>

\* One iteration of the worker loop (lines 81-116), by the way it goes: out
\* at the flag, a timeout or Shutdown, a NewOrder, a CancelOrder.
TradeCounts == {0, 1}
worker_ops ==
    {running_check, running_check \o receive}
    \cup {running_check \o receive \o process_order_ops(rejected, trades) \o push_latency :
             rejected \in BOOLEAN, trades \in TradeCounts}
    \cup {running_check \o receive \o process_cancel_ops(found) : found \in BOOLEAN}

\* get_metrics: the metrics guard is a temporary of the clone (227); the
\* samples guard lives to the end (230-242).
get_metrics_ops ==
    <<Lock("metrics"), Unlock("metrics"), Lock("latency_samples"), Unlock("latency_samples")>>

\* get_order_book (lines 256-260)
get_order_book_ops == <<Lock("order_books"), Unlock("order_books")>>

\* submit_order, cancel_order and stop: the flag, then (unless the call
\* returned EngineStopped) the send; start: the flag only.
producer_ops == {running_check, running_check \o << <<"send", "order_sender">> >>}

ScriptsOf(t) ==
    CASE t = "worker" -> worker_ops
      [] t = "snapshot_metrics" -> {get_metrics_ops}
      [] t = "peek_book" -> {get_order_book_ops}
      [] t = "producer" -> producer_ops

Held(t) == {m \in Mutexes : mutexes[m] = t}
AtEnd(t) == lock_threads[t].at > Len(lock_threads[t].script)
NextOp(t) == lock_threads[t].script[lock_threads[t].at]

\* ----------------------------------------------------------------- inputs
\* Orders built by the two constructors: every limit and market order of
\* the first symbol, and limit orders of one unit at the two exact prices
\* for the second.
ConstructedOrders(id) ==
    {new_limit(id, "BTCUSD", sd, q, p) : sd \in Sides, q \in Quantities \ {0}, p \in Prices}
    \cup {new_market(id, "BTCUSD", sd, q) : sd \in Sides, q \in Quantities \ {0}}
    \cup {new_limit(id, "ETHUSD", sd, 1, p) : sd \in Sides, p \in {SubTicks, 2 * SubTicks}}

\* Orders built field by field (every field of Order is public): the ones
\* the validation of process_order is about, stop orders, and an order
\* whose status is not Pending.
LiteralOrders(id) ==
    {new_limit(id, "BTCUSD", "Buy", 0, SubTicks), new_market(id, "ETHUSD", "Sell", 0)}
    \cup {[new_limit(id, "BTCUSD", sd, 1, SubTicks) EXCEPT !.price = None] : sd \in Sides}
    \cup {[new_limit(id, "BTCUSD", "Sell", 1, SubTicks) EXCEPT !.order_type = t] :
            t \in {"StopLoss", "StopLimit"}}
    \cup {[new_limit(id, "BTCUSD", "Buy", 1, SubTicks) EXCEPT !.status = "Filled"]}

OrderInputs(id) == ConstructedOrders(id) \cup LiteralOrders(id)

\* EngineCommand
NewOrderCmd(order) == [kind |-> "NewOrder", order |-> order]
CancelOrderCmd(order_id, symbol) == [kind |-> "CancelOrder", order_id |-> order_id, symbol |-> symbol]
ShutdownCmd == [kind |-> "Shutdown"]

\* A worker task: not spawned yet, or at a point of its loop (lines 81-116):
\* "check" (line 82), "recv" (lines 87-89), "process" (a command in hand,
\* lines 91-110), "send" (the trades of process_order still to send, lines
\* 171-175), "exited".
NoWorker == [pc |-> "none", cmd |-> <<>>, trades |-> <<>>]
WorkerAt(pc, cmd, trades) == [pc |-> pc, cmd |-> cmd, trades |-> trades]

\* A caller thread: between calls, or inside a call `op`, past its check of
\* the running flag ("send": about to send its command; "spawn": about to
\* spawn the worker).  raced: a start() was called while this stop() was in
\* progress (history).
Idle == [op |-> "none", pc |-> "idle", cmd |-> <<>>, raced |-> FALSE]
InCall(op, pc, cmd) == [op |-> op, pc |-> pc, cmd |-> cmd, raced |-> FALSE]

\* ------------------------------------------------------------------- Init
Init ==
    /\ order_books = EmptyMap
    /\ metrics = default_metrics
    /\ running = FALSE
    /\ queue = <<>>
    /\ trade_sink = <<>>
    /\ workers = [w \in Workers |-> NoWorker]
    /\ callers = [c \in Callers |-> Idle]
    /\ stop_returned = TRUE
    /\ stop_clean = TRUE
    /\ last_result = "none"
    /\ next_id = 1
    /\ ledger = EmptyMap
    /\ fill_log = <<>>
    /\ cancelled = {}
    /\ latency_samples = <<>>
    /\ snapshot = None
    /\ mutexes = [m \in Mutexes |-> "free"]
    /\ lock_threads = [t \in LockThreads |-> NoScript]

\* ----------------------------------------------------- history bookkeeping
AllResting(books) == UNION {RestingIn(books[s]) : s \in DOMAIN books}

\* The last value of every order after a command: the value resting in a
\* book, else the value match_orders popped, else the value it had.
Latest(old, ids, books, done, dflt) ==
    [id \in ids |->
        IF \E o \in AllResting(books) : o.id = id
        THEN CHOOSE o \in AllResting(books) : o.id = id
        ELSE IF \E o \in done : o.id = id
        THEN CHOOSE o \in done : o.id = id
        ELSE IF id \in DOMAIN old THEN old[id] ELSE dflt]

\* A changed try_send_all: a trade the channel took is sent again.
RECURSIVE try_send_twice(_, _, _)
try_send_twice(sink, trades, accepted) ==
    IF trades = <<>> THEN sink
    ELSE try_send_twice(IF Head(accepted) THEN sink \o <<Head(trades), Head(trades)>>
                                          ELSE sink,
                        Tail(trades), Tail(accepted))

\* trade_sender.try_send(trade) for each trade in turn (lines 171-175):
\* accepted[i] says whether the channel took the i-th trade.
RECURSIVE try_send_all(_, _, _)
try_send_all(sink, trades, accepted) ==
    IF trades = <<>> THEN sink
    ELSE try_send_all(IF Head(accepted) THEN Append(sink, Head(trades)) ELSE sink,
                      Tail(trades), Tail(accepted))

\* ------------------------------------------------------- BookSpec actions
\* The worker's NewOrder arm (lines 92-103) on a freshly built order.
DispatchNewOrder ==
    /\ next_id <= MaxOrders
    /\ \E order \in OrderInputs(next_id) :
         LET r == process_order(order, order_books, metrics)
             trades == TradesOf(r.fills)
         IN /\ order_books' = r.books
            /\ metrics' = r.metrics
            /\ \E accepted \in [1..Len(trades) -> BOOLEAN] :
                 trade_sink' = try_send_all(trade_sink, trades, accepted)
            /\ ledger' = Latest(ledger, (DOMAIN ledger) \cup {order.id}, r.books, r.done,
                                IF r.rejected THEN [order EXCEPT !.status = "Rejected"]
                                              ELSE order)
            /\ fill_log' = fill_log \o r.fills
    /\ \E latency \in Elapsed : latency_samples' = Append(latency_samples, latency)
    /\ next_id' = next_id + 1
    /\ UNCHANGED <<lock_vars, snapshot, cancelled, engine_vars>>

\* The worker's CancelOrder arm (lines 104-106).
DispatchCancelOrder ==
    /\ \E order_id \in 1..MaxOrders, symbol \in Symbols :
         LET r == process_cancel(order_id, symbol, order_books, metrics)
         IN /\ order_books' = r.books
            /\ metrics' = r.metrics
            /\ cancelled' = IF is_some(r.result) THEN cancelled \cup {order_id} ELSE cancelled
            /\ ledger' = IF is_some(r.result)
                         THEN [ledger EXCEPT ![order_id] = r.result[1]]
                         ELSE ledger
    /\ UNCHANGED <<lock_vars, metrics_vars, trade_sink, next_id, fill_log, engine_vars>>

BookNext == DispatchNewOrder \/ DispatchCancelOrder

BookSpec == Init /\ [][BookNext]_vars

\* -------------------------------------------------------- ApiSpec actions
\* The orders handed to OrderBook::add_order directly (it validates nothing).
ApiOrders(id) ==
    {new_limit(id, "BTCUSD", sd, q, p) :
        sd \in Sides, q \in Quantities, p \in {SubTicks, 2 * SubTicks}}

\* book.add_order(order) on the caller's book
ApiAddOrder ==
    /\ next_id <= MaxOrders
    /\ \E order \in ApiOrders(next_id) :
         /\ order_books' = MapInsert(order_books, order.symbol,
                                     add_order(book_entry(order_books, order.symbol), order))
         /\ ledger' = MapInsert(ledger, order.id, order)
    /\ next_id' = next_id + 1
    /\ UNCHANGED <<lock_vars, metrics_vars, metrics, trade_sink, fill_log, cancelled, engine_vars>>

\* book.match_orders()
ApiMatchOrders ==
    /\ \E symbol \in DOMAIN order_books :
         LET r == match_orders(order_books[symbol])
         IN /\ order_books' = [order_books EXCEPT ![symbol] = r.book]
            /\ ledger' = Latest(ledger, DOMAIN ledger, order_books', r.done, <<>>)
            /\ fill_log' = fill_log \o r.fills
    /\ UNCHANGED <<lock_vars, metrics_vars, metrics, trade_sink, next_id, cancelled, engine_vars>>

\* book.cancel_order(order_id)
ApiCancelOrder ==
    /\ \E order_id \in 1..MaxOrders, symbol \in DOMAIN order_books :
         LET r == cancel_order(order_books[symbol], order_id)
         IN /\ order_books' = [order_books EXCEPT ![symbol] = r.book]
            /\ cancelled' = IF is_some(r.result) THEN cancelled \cup {order_id} ELSE cancelled
            /\ ledger' = IF is_some(r.result)
                         THEN [ledger EXCEPT ![order_id] = r.result[1]]
                         ELSE ledger
    /\ UNCHANGED <<lock_vars, metrics_vars, metrics, trade_sink, next_id, fill_log, engine_vars>>

ApiNext == ApiAddOrder \/ ApiMatchOrders \/ ApiCancelOrder

ApiSpec == Init /\ [][ApiNext]_vars

\* ----------------------------------------------------------- Spec actions
\* The orders submitted to the engine in Spec.
EngineOrders(id) ==
    {new_limit(id, "BTCUSD", sd, 1, SubTicks) : sd \in Sides}

\* start(), lines 63-69: under the running mutex, return if already running,
\* else set the flag.
StartCall(c) ==
    /\ callers[c].pc = "idle"
    /\ IF running
       THEN /\ callers' = [x \in Callers |->
                             IF x = c THEN Idle
                             ELSE IF callers[x].op = "stop" /\ callers[x].pc = "send"
                                  THEN [callers[x] EXCEPT !.raced = TRUE]
                                  ELSE callers[x]]
            /\ UNCHANGED running
       ELSE /\ Cardinality({w \in Workers : workers[w].pc = "none"})
                 > Cardinality({x \in Callers : callers[x].pc = "spawn"})
            /\ running' = TRUE
            /\ callers' = [x \in Callers |->
                             IF x = c THEN InCall("start", "spawn", <<>>)
                             ELSE IF callers[x].op = "stop" /\ callers[x].pc = "send"
                                  THEN [callers[x] EXCEPT !.raced = TRUE]
                                  ELSE callers[x]]
    /\ stop_returned' = FALSE
    /\ stop_clean' = FALSE
    /\ last_result' = "none"
    /\ UNCHANGED <<lock_vars, metrics_vars, book_vars, queue, workers>>

\* start(), lines 73-117: task::spawn of the worker loop.
StartSpawn(c) ==
    /\ callers[c].op = "start" /\ callers[c].pc = "spawn"
    /\ LET w == SetMin({x \in Workers : workers[x].pc = "none"})
       IN workers' = [workers EXCEPT ![w] = WorkerAt("check", <<>>, <<>>)]
    /\ callers' = [callers EXCEPT ![c] = Idle]
    /\ UNCHANGED <<lock_vars, metrics_vars, book_vars, running, queue, history_vars>>

\* A changed stop_flag: stop() leaves the flag as it is.
stop_flag_unchanged == running

\* The value stop() writes to the running flag (line 248).
stop_flag == FALSE

\* stop(), lines 247-249: clear the running flag.
StopCall(c) ==
    /\ callers[c].pc = "idle"
    /\ running' = stop_flag
    /\ callers' = [callers EXCEPT ![c] = InCall("stop", "send", ShutdownCmd)]
    /\ UNCHANGED <<lock_vars, metrics_vars, book_vars, queue, workers, history_vars>>

\* stop(), line 251: order_sender.send(Shutdown), which blocks while the
\* channel is full; then stop() returns.
StopSend(c) ==
    /\ callers[c].op = "stop" /\ callers[c].pc = "send"
    /\ Len(queue) < QueueCap
    /\ queue' = Append(queue, callers[c].cmd)
    /\ callers' = [callers EXCEPT ![c] = Idle]
    /\ stop_returned' = TRUE
    /\ stop_clean' = IF callers[c].raced THEN stop_clean ELSE TRUE
    /\ last_result' = "none"
    /\ UNCHANGED <<lock_vars, metrics_vars, book_vars, running, workers>>

\* The check of the running flag that opens submit_order and cancel_order
\* (lines 201-203, 214-216).
EnterCall(c, op, cmd) ==
    /\ callers[c].pc = "idle"
    /\ callers' = [callers EXCEPT ![c] =
                     IF running THEN InCall(op, "send", cmd)
                                ELSE Idle]
    /\ last_result' = IF running THEN last_result ELSE "EngineStopped"

\* submit_order(order), lines 201-203, on a freshly built order.
SubmitCall(c) ==
    /\ c \in Producers
    /\ next_id <= MaxSubmits
    /\ \E order \in EngineOrders(next_id) : EnterCall(c, "submit", NewOrderCmd(order))
    /\ next_id' = next_id + 1
    /\ UNCHANGED <<lock_vars, metrics_vars, order_books, metrics, trade_sink, ledger, fill_log, cancelled,
                   running, queue, workers, stop_returned, stop_clean>>

\* cancel_order(order_id, symbol), lines 214-216.
CancelCall(c) ==
    /\ c \in Producers
    /\ \E order_id \in 1..MaxSubmits :
         EnterCall(c, "cancel", CancelOrderCmd(order_id, "BTCUSD"))
    /\ UNCHANGED <<lock_vars, metrics_vars, book_vars, running, queue, workers, stop_returned, stop_clean>>

\* order_sender.send(command) of submit_order and cancel_order (lines
\* 205-209, 218-222): it blocks while the channel is full; the receiver is
\* never dropped, so it cannot fail.
CommandSend(c) ==
    /\ callers[c].op \in {"submit", "cancel"} /\ callers[c].pc = "send"
    /\ Len(queue) < QueueCap
    /\ queue' = Append(queue, callers[c].cmd)
    /\ callers' = [callers EXCEPT ![c] = Idle]
    /\ last_result' = "Ok"
    /\ UNCHANGED <<lock_vars, metrics_vars, book_vars, running, workers, stop_returned, stop_clean>>

\* A changed loop_exits: the worker does not look at the flag.
loop_never_exits(flag) == FALSE

\* Whether the worker leaves its loop on the value it reads from the running
\* flag (line 82).
loop_exits(flag) == ~flag

\* The worker loop, lines 82-85: leave the loop when the flag is cleared.
WorkerCheckRunning(w) ==
    /\ workers[w].pc = "check"
    /\ workers' = [workers EXCEPT ![w] =
                     WorkerAt(IF loop_exits(running) THEN "exited" ELSE "recv", <<>>, <<>>)]
    /\ UNCHANGED <<lock_vars, metrics_vars, book_vars, running, queue, callers, history_vars>>

\* The worker loop, lines 87-89 and 111-114: recv_timeout takes the head of
\* the channel, or times out on an empty channel and the loop continues.
WorkerRecv(w) ==
    /\ workers[w].pc = "recv"
    /\ IF queue # <<>>
       THEN /\ workers' = [workers EXCEPT ![w] = WorkerAt("process", Head(queue), <<>>)]
            /\ queue' = Tail(queue)
       ELSE /\ workers' = [workers EXCEPT ![w] = WorkerAt("check", <<>>, <<>>)]
            /\ UNCHANGED queue
    /\ UNCHANGED <<lock_vars, metrics_vars, book_vars, running, callers, history_vars>>

\* The worker's NewOrder arm: process_order up to the release of the locks
\* and, when there is no trade to send, the push of the elapsed time (lines
\* 101-102).
WorkerNewOrder(w) ==
    /\ workers[w].pc = "process" /\ workers[w].cmd.kind = "NewOrder"
    /\ LET order == workers[w].cmd.order
           r == process_order(order, order_books, metrics)
       IN /\ order_books' = r.books
          /\ metrics' = r.metrics
          /\ ledger' = Latest(ledger, (DOMAIN ledger) \cup {order.id}, r.books, r.done,
                              IF r.rejected THEN [order EXCEPT !.status = "Rejected"]
                                            ELSE order)
          /\ fill_log' = fill_log \o r.fills
          /\ workers' = [workers EXCEPT ![w] =
                           IF r.fills = <<>> THEN WorkerAt("check", <<>>, <<>>)
                           ELSE WorkerAt("send", <<>>, TradesOf(r.fills))]
          /\ IF r.fills = <<>>
             THEN \E latency \in Elapsed :
                    latency_samples' = Append(latency_samples, latency)
             ELSE UNCHANGED latency_samples
    /\ UNCHANGED <<lock_vars, snapshot, trade_sink, next_id, cancelled, running, queue, callers,
                   history_vars>>

\* process_order, lines 171-175: try_send of the next trade (the channel
\* takes it or, full or closed, refuses it); after the last one the arm
\* pushes the elapsed time (lines 101-102).
WorkerSendTrade(w) ==
    /\ workers[w].pc = "send"
    /\ \E accepted \in BOOLEAN :
         trade_sink' = try_send_all(trade_sink, <<Head(workers[w].trades)>>, <<accepted>>)
    /\ workers' = [workers EXCEPT ![w] =
                     IF Len(workers[w].trades) = 1 THEN WorkerAt("check", <<>>, <<>>)
                     ELSE WorkerAt("send", <<>>, Tail(workers[w].trades))]
    /\ IF Len(workers[w].trades) = 1
       THEN \E latency \in Elapsed : latency_samples' = Append(latency_samples, latency)
       ELSE UNCHANGED latency_samples
    /\ UNCHANGED <<lock_vars, snapshot, order_books, metrics, next_id, ledger, fill_log, cancelled,
                   running, queue, callers, history_vars>>

\* The worker's CancelOrder arm: process_cancel.
WorkerCancelOrder(w) ==
    /\ workers[w].pc = "process" /\ workers[w].cmd.kind = "CancelOrder"
    /\ LET r == process_cancel(workers[w].cmd.order_id, workers[w].cmd.symbol,
                               order_books, metrics)
       IN /\ order_books' = r.books
          /\ metrics' = r.metrics
          /\ cancelled' = IF is_some(r.result) THEN cancelled \cup {workers[w].cmd.order_id}
                                               ELSE cancelled
          /\ ledger' = IF is_some(r.result)
                       THEN [ledger EXCEPT ![workers[w].cmd.order_id] = r.result[1]]
                       ELSE ledger
    /\ workers' = [workers EXCEPT ![w] = WorkerAt("check", <<>>, <<>>)]
    /\ UNCHANGED <<lock_vars, metrics_vars, trade_sink, next_id, fill_log, running, queue, callers,
                   history_vars>>

\* The worker's Shutdown arm (lines 107-110): leave the loop.
WorkerShutdown(w) ==
    /\ workers[w].pc = "process" /\ workers[w].cmd.kind = "Shutdown"
    /\ workers' = [workers EXCEPT ![w] = WorkerAt("exited", <<>>, <<>>)]
    /\ UNCHANGED <<lock_vars, metrics_vars, book_vars, running, queue, callers, history_vars>>

CallerNext(c) ==
    \/ StartCall(c)
    \/ StartSpawn(c)
    \/ StopCall(c)
    \/ StopSend(c)
    \/ SubmitCall(c)
    \/ CancelCall(c)
    \/ CommandSend(c)

WorkerNext(w) ==
    \/ WorkerCheckRunning(w)
    \/ WorkerRecv(w)
    \/ WorkerNewOrder(w)
    \/ WorkerSendTrade(w)
    \/ WorkerCancelOrder(w)
    \/ WorkerShutdown(w)

Next == (\E c \in Callers : CallerNext(c)) \/ (\E w \in Workers : WorkerNext(w))

Spec == Init /\ [][Next]_vars

\* One thread calls the engine, so its calls follow one another.
SeqNext == CallerNext("t1") \/ (\E w \in Workers : WorkerNext(w))

SeqSpec == Init /\ [][SeqNext]_vars

\* The worker tasks are scheduled fairly (tokio runs every spawned task that
\* can run; recv_timeout returns after 100 ms at the latest); the callers
\* are free to make no further call.
\* At most one step of a worker is enabled at a time, so this is weak fairness
\* of WorkerNext(w), step by step.  The NewOrder and CancelOrder arms are
\* enabled exactly while the worker holds such a command, and their step
\* always leaves the worker without it, so their weak fairness is written
\* as []<>~Holding(w).
Holding(w) ==
    workers[w].pc = "process" /\ workers[w].cmd.kind \in {"NewOrder", "CancelOrder"}

WorkerFairness ==
    \A w \in Workers :
        /\ WF_vars(WorkerCheckRunning(w))
        /\ WF_vars(WorkerRecv(w))
        /\ []<>~Holding(w)
        /\ WF_vars(WorkerSendTrade(w))
        /\ WF_vars(WorkerShutdown(w))

FairSpec == Spec /\ WorkerFairness
FairSeqSpec == SeqSpec /\ WorkerFairness

\* A thread inside a call goes on whenever it can: it spawns the worker, and
\* its send on the command channel completes once the channel has room.  A
\* thread between calls is free to make no further call.
CallerFairness ==
    \A c \in Callers :
        /\ WF_vars(StartSpawn(c))
        /\ WF_vars(StopSend(c))
        /\ WF_vars(CommandSend(c))

FairCallSpec == SeqSpec /\ WorkerFairness /\ CallerFairness

\* ------------------------------------------------- PercentileSpec actions
\* A buffer of n distinct samples in descending order, rotated by k.
Ramp(n, k) == [i \in 1..n |-> ((n - i + k) % n) + 1]

\* The sample buffers get_metrics is applied to: every buffer over Latencies
\* up to MaxEnumLen samples, and the rotated ramps up to MaxSamples samples.
SampleBuffers ==
    UNION {[1..n -> Latencies] : n \in 0..MaxEnumLen}
    \cup UNION {{Ramp(n, k) : k \in 0..(n - 1)} : n \in 1..MaxSamples}

\* The engine after the worker has processed n orders of quantity 0 (each
\* rejected, each leaving one sample), for every sample buffer.
PercentileInit ==
    /\ \E samples \in SampleBuffers :
         /\ latency_samples = samples
         /\ metrics = [default_metrics EXCEPT !.rejected_orders = Len(samples)]
         /\ next_id = Len(samples) + 1
         /\ ledger = [id \in 1..Len(samples) |->
                        [new_limit(id, "BTCUSD", "Buy", 0, SubTicks)
                            EXCEPT !.status = "Rejected"]]
    /\ order_books = EmptyMap
    /\ running = FALSE
    /\ queue = <<>>
    /\ trade_sink = <<>>
    /\ workers = [w \in Workers |-> NoWorker]
    /\ callers = [c \in Callers |-> Idle]
    /\ stop_returned = TRUE
    /\ stop_clean = TRUE
    /\ last_result = "none"
    /\ fill_log = <<>>
    /\ cancelled = {}
    /\ snapshot = None
    /\ mutexes = [m \in Mutexes |-> "free"]
    /\ lock_threads = [t \in LockThreads |-> NoScript]

\* get_metrics()
GetMetrics ==
    /\ LET r == get_metrics(metrics, latency_samples)
       IN /\ snapshot' = Some([f \in (DOMAIN r) \ {"samples"} |-> r[f]])
          /\ latency_samples' = r.samples
    /\ UNCHANGED <<lock_vars, book_vars, engine_vars>>

PercentileNext == GetMetrics

PercentileSpec == PercentileInit /\ [][PercentileNext]_vars

\* ---------------------------------------------------------- LockSpec actions
\* A thread enters one of its functions.
LockBegin(t) ==
    /\ lock_threads[t] = NoScript
    /\ \E script \in ScriptsOf(t) :
         lock_threads' = [lock_threads EXCEPT ![t] = [script |-> script, at |-> 1]]
    /\ UNCHANGED <<mutexes, metrics_vars, book_vars, engine_vars>>

\* Mutex::lock: waits until the mutex is free, then owns it.
LockAcquire(t) ==
    /\ lock_threads[t] # NoScript /\ ~AtEnd(t)
    /\ NextOp(t)[1] = "lock"
    /\ mutexes[NextOp(t)[2]] = "free"
    /\ mutexes' = [mutexes EXCEPT ![NextOp(t)[2]] = t]
    /\ lock_threads' = [lock_threads EXCEPT ![t].at = @ + 1]
    /\ UNCHANGED <<metrics_vars, book_vars, engine_vars>>

\* The guard is dropped.
LockRelease(t) ==
    /\ lock_threads[t] # NoScript /\ ~AtEnd(t)
    /\ NextOp(t)[1] = "unlock"
    /\ mutexes' = [mutexes EXCEPT ![NextOp(t)[2]] = "free"]
    /\ lock_threads' = [lock_threads EXCEPT ![t].at = @ + 1]
    /\ UNCHANGED <<metrics_vars, book_vars, engine_vars>>

\* recv_timeout, send or try_send on a channel.
ChannelOp(t) ==
    /\ lock_threads[t] # NoScript /\ ~AtEnd(t)
    /\ NextOp(t)[1] \in ChannelOps
    /\ lock_threads' = [lock_threads EXCEPT ![t].at = @ + 1]
    /\ UNCHANGED <<mutexes, metrics_vars, book_vars, engine_vars>>

\* The function returns (the worker: the iteration ends).
LockEnd(t) ==
    /\ lock_threads[t] # NoScript /\ AtEnd(t)
    /\ lock_threads' = [lock_threads EXCEPT ![t] = NoScript]
    /\ UNCHANGED <<mutexes, metrics_vars, book_vars, engine_vars>>

LockNext ==
    \E t \in LockThreads :
        LockBegin(t) \/ LockAcquire(t) \/ LockRelease(t) \/ ChannelOp(t) \/ LockEnd(t)

LockSpec == Init /\ [][LockNext]_vars

\* ================================================================= claims
FillIndex == 1..Len(fill_log)
IdsResting(books) == {o.id : o \in AllResting(books)}

\* C1. No crossed book at rest: at every command boundary, in every order
\* book, one ladder has no price level or the highest bid tick is strictly
\* below the lowest ask tick.
NotCrossed(book) ==
    \/ DOMAIN book.bids = {}
    \/ DOMAIN book.asks = {}
    \/ SetMax(DOMAIN book.bids) < SetMin(DOMAIN book.asks)
C1_NoCrossedBookAtRest == \A s \in DOMAIN order_books : NotCrossed(order_books[s])

\* C1 witness: a book that has traded and holds orders on both sides.
C1_Witness ==
    \E s \in DOMAIN order_books :
        /\ Resting(order_books[s].bids) # {}
        /\ Resting(order_books[s].asks) # {}
        /\ \E i \in FillIndex : fill_log[i].trade.symbol = s

\* Every order so far was a limit order with a price, as new_limit builds it.
OnlyLimitOrders ==
    \A id \in DOMAIN ledger : ledger[id].order_type = "Limit" /\ is_some(ledger[id].price)

\* C2. Every trade clears at the resting order's price: the ask level's
\* price when the order just added is the buy, the bid level's price when
\* it is the sell.  (Of the two orders of a trade the one just added is the
\* one with the later id.  Stated for books that only ever held limit
\* orders, so that a violation does not rest on how market orders are
\* routed.)
C2_TradeAtRestingPrice ==
    OnlyLimitOrders =>
        \A i \in FillIndex :
            LET f == fill_log[i]
            IN f.trade.price = IF f.bid_before.id > f.ask_before.id
                               THEN from_tick(f.ask_price)
                               ELSE from_tick(f.bid_price)

TradedQuantity(id) ==
    SumSeq([i \in FillIndex |->
              IF id \in {fill_log[i].trade.buy_order_id, fill_log[i].trade.sell_order_id}
              THEN fill_log[i].trade.quantity ELSE 0])
ConservationInv ==
    /\ \A i \in FillIndex :
         LET f == fill_log[i]
         IN /\ f.bid_after.filled_quantity = f.bid_before.filled_quantity + f.trade.quantity
            /\ f.ask_after.filled_quantity = f.ask_before.filled_quantity + f.trade.quantity
            /\ f.trade.buy_order_id = f.bid_before.id
            /\ f.trade.sell_order_id = f.ask_before.id
    /\ \A id \in DOMAIN ledger :
         /\ ledger[id].filled_quantity <= ledger[id].quantity
         /\ ledger[id].filled_quantity = TradedQuantity(id)
FilledNeverDecreases ==
    \A id \in DOMAIN ledger :
        ledger'[id].filled_quantity >= ledger[id].filled_quantity
C4_ConservationOfQuantity == []ConservationInv /\ [][FilledNeverDecreases]_vars

\* C4 witness: an order filled in two trades.
C4_Witness ==
    \E id \in DOMAIN ledger :
        /\ ledger[id].filled_quantity = 2
        /\ \E i, j \in FillIndex :
             /\ i # j
             /\ id \in {fill_log[i].trade.buy_order_id, fill_log[i].trade.sell_order_id}
             /\ id \in {fill_log[j].trade.buy_order_id, fill_log[j].trade.sell_order_id}

\* C5. At every command boundary every resting order has
\* quantity - filled_quantity > 0 and status Pending or PartiallyFilled (add
\* leaves the admitted order Pending; no Filled, Cancelled or Rejected order
\* rests).
C5_RestingOrdersLive ==
    \A o \in AllResting(order_books) :
        /\ o.quantity - o.filled_quantity > 0
        /\ o.status \in {"Pending", "PartiallyFilled"}

\* C6. No empty price level at a command boundary: every tick present in
\* bids or asks maps to a non-empty FIFO, so best_bid/best_ask report only a
\* price at which an order rests.  (Stated for books that only ever held
\* limit orders.)
NoEmptyLevel(ladder) == \A k \in DOMAIN ladder : ladder[k] # <<>>
C6_NoEmptyPriceLevel ==
    OnlyLimitOrders =>
        \A s \in DOMAIN order_books :
            LET book == order_books[s]
            IN /\ NoEmptyLevel(book.bids) /\ NoEmptyLevel(book.asks)
               /\ is_some(best_bid(book)) =>
                    \E o \in Resting(book.bids) :
                        from_tick(price_level(o)) = best_bid(book)[1]
               /\ is_some(best_ask(book)) =>
                    \E o \in Resting(book.asks) :
                        from_tick(price_level(o)) = best_ask(book)[1]

\* C7. Idempotent cancel: the first CancelOrder of a resting order removes
\* it, returns it with status Cancelled and adds exactly 1 to
\* cancelled_orders; every later CancelOrder of that id returns absent and
\* leaves cancelled_orders and the books unchanged.
FirstCancel(s, o) ==
    LET r == process_cancel(o.id, s, order_books, metrics)
        again == process_cancel(o.id, s, r.books, r.metrics)
    IN /\ r.result = Some([o EXCEPT !.status = "Cancelled"])
       /\ o.id \notin IdsResting(r.books)
       /\ IdsResting(r.books) = IdsResting(order_books) \ {o.id}
       /\ r.metrics = [metrics EXCEPT !.cancelled_orders = @ + 1]
       /\ again.result = None
       /\ again.books = r.books
       /\ again.metrics = r.metrics
LaterCancel(id) ==
    \A s \in Symbols :
        LET r == process_cancel(id, s, order_books, metrics)
        IN r.result = None /\ r.books = order_books /\ r.metrics = metrics
C7_IdempotentCancel ==
    /\ \A s \in DOMAIN order_books : \A o \in RestingIn(order_books[s]) : FirstCancel(s, o)
    /\ \A id \in cancelled : LaterCancel(id) /\ ledger[id].status = "Cancelled"
    /\ metrics.cancelled_orders = Cardinality(cancelled)

\* C7 witness: an order has been cancelled and another one rests.
C7_Witness ==
    /\ cancelled # {}
    /\ metrics.cancelled_orders = 1
    /\ AllResting(order_books) # {}

\* C8. A market order is never rested: at every command boundary no market
\* order is in any ladder, and a processed market order is Filled or
\* Cancelled.
C8_MarketNeverRested ==
    /\ \A o \in AllResting(order_books) : o.order_type # "Market"
    /\ \A id \in DOMAIN ledger :
         (ledger[id].order_type = "Market" /\ ledger[id].status # "Rejected")
            => ledger[id].status \in {"Filled", "Cancelled"}

\* C9. Validation rejection: a NewOrder with quantity 0, or Limit without a
\* price, or of a type other than Market and Limit, adds 1 to
\* rejected_orders and leaves total_orders, filled_orders, total_trades,
\* every book (and the set of books) and the trade channel unchanged.
Invalid(o) ==
    \/ o.quantity = 0
    \/ (o.order_type = "Limit" /\ is_none(o.price))
    \/ o.order_type \notin {"Market", "Limit"}
RejectedStep ==
    (next_id' = next_id + 1 /\ Invalid(ledger'[next_id])) =>
        /\ metrics' = [metrics EXCEPT !.rejected_orders = @ + 1]
        /\ order_books' = order_books
        /\ trade_sink' = trade_sink
C9_ValidationRejection == [][RejectedStep]_vars

\* C10. Shutdown finality: once stop() has returned (or the engine was never
\* started) and until start() is called again, every submit and cancel call
\* returns EngineStopped and enqueues nothing.  A call that does not return
\* EngineStopped is one that passes its check of the running flag and goes
\* on to send its command.
Admitted(c) ==
    /\ callers[c].pc = "idle"
    /\ callers'[c].pc = "send"
    /\ callers'[c].op \in {"submit", "cancel"}
C10_ShutdownFinality == [][stop_returned => \A c \in Callers : ~Admitted(c)]_vars

\* C10 as amended: the same, for a stop() during which no start() was called.
C10_ShutdownFinalityAmended ==
    [][stop_clean => \A c \in Callers : ~Admitted(c)]_vars

\* C10 witness: the engine was started, a stop() has returned, and a call
\* made since then has returned EngineStopped.
C10_Witness ==
    /\ stop_clean
    /\ \E w \in Workers : workers[w].pc # "none"
    /\ last_result = "EngineStopped"

\* C11. stop() on an engine that is already Stopped (never started, or
\* stopped and not started since) is a no-op: neither of its two steps
\* changes the running flag, the contents of the command queue, the books or
\* the metrics.  (With one calling thread, stop_clean says the engine was
\* Stopped when this stop() was called.)
StopStep(c) == StopCall(c) \/ StopSend(c)

C11_StopNoOpWhenStopped ==
    [][\A c \in Callers :
         (stop_clean /\ StopStep(c)) =>
            /\ running' = running
            /\ queue' = queue
            /\ order_books' = order_books
            /\ metrics' = metrics]_vars

\* C12. The engine can be restarted: once a second worker has been spawned
\* (by one thread that called start(), stop(), start() in turn), a NewOrder
\* command that submit_order put in the queue is eventually processed by a
\* worker, unless stop() is called again (which clears the running flag).
Accepted(id) ==
    \E i \in 1..Len(queue) : queue[i].kind = "NewOrder" /\ queue[i].order.id = id

Processed(id) == id \in DOMAIN ledger

Restarted == workers[MaxWorkers].pc # "none"

C12_RestartLiveness ==
    \A id \in 1..MaxSubmits :
        (Restarted /\ running /\ Accepted(id)) ~> (Processed(id) \/ ~running)

\* C13. Commands are applied in the order the queue admitted them: the one
\* producer's orders are admitted in the order of their ids, so no order is
\* processed while an order with a smaller id is still in the queue or in
\* the hands of a worker.
Pending(id) ==
    \/ Accepted(id)
    \/ \E w \in Workers : /\ workers[w].pc = "process"
                           /\ workers[w].cmd.kind = "NewOrder"
                           /\ workers[w].cmd.order.id = id

C13_AdmissionOrder ==
    \A id \in 1..MaxSubmits, later \in 1..MaxSubmits :
        (Pending(id) /\ Processed(later)) => later < id

\* C14. After stop() is called and no start() follows, every worker
\* eventually leaves its loop, the command a worker holds is completed, and
\* a worker that has left its loop dequeues nothing more: it stays exited
\* and is not the one that shortens the queue.
AllExited == \A w \in Workers : workers[w].pc \in {"none", "exited"}

HoldsOrder(w, id) ==
    /\ workers[w].pc = "process"
    /\ workers[w].cmd.kind = "NewOrder"
    /\ workers[w].cmd.order.id = id

ExitIsFinal ==
    \A w \in Workers :
        workers[w].pc = "exited" => workers'[w] = workers[w]

ObservedStopExits ==
    \A w \in Workers :
        /\ (workers[w].pc = "check" /\ ~running /\ workers'[w] # workers[w])
              => (workers'[w].pc = "exited" /\ queue' = queue)
        /\ (workers[w].pc = "process" /\ workers[w].cmd.kind = "Shutdown"
                /\ workers'[w] # workers[w])
              => (workers'[w].pc = "exited" /\ queue' = queue)

C14_WorkerExitsAfterStop ==
    /\ (~running) ~> (running \/ AllExited)
    /\ \A w \in Workers, id \in 1..MaxSubmits :
          HoldsOrder(w, id) ~> Processed(id)
    /\ [][ExitIsFinal /\ ObservedStopExits]_vars

C14_Witness ==
    /\ ~running
    /\ stop_returned
    /\ AllExited
    /\ \E w \in Workers : workers[w].pc = "exited"
    /\ \E id \in 1..MaxSubmits : Accepted(id)
    /\ ledger # EmptyMap

\* C15. A processed NewOrder that passes validation adds exactly 1 to
\* total_orders, the number of trades it produced to total_trades, and 1 to
\* filled_orders if it produced at least one trade, 0 otherwise.
TradesMade == Len(fill_log') - Len(fill_log)

CountedStep ==
    (next_id' = next_id + 1 /\ ~rejects(ledger'[next_id])) =>
        /\ metrics'.total_orders = metrics.total_orders + 1
        /\ metrics'.total_trades = metrics.total_trades + TradesMade
        /\ metrics'.filled_orders =
              metrics.filled_orders + (IF TradesMade >= 1 THEN 1 ELSE 0)
        /\ metrics'.rejected_orders = metrics.rejected_orders
        /\ metrics'.cancelled_orders = metrics.cancelled_orders

C15_MetricsCounters == [][CountedStep]_vars

C15_Witness ==
    /\ metrics.total_orders = 3
    /\ metrics.total_trades = 2
    /\ metrics.filled_orders = 1
    /\ Len(fill_log) = 2

\* C16. Metrics monotonicity: no step of the engine (commands, stops,
\* restarts) lowers total_orders, filled_orders, cancelled_orders,
\* rejected_orders or total_trades, so a later snapshot (a clone of the
\* counters) is never below an earlier one.
Counters == {"total_orders", "filled_orders", "cancelled_orders",
             "rejected_orders", "total_trades"}

CountersNonDecreasing == \A f \in Counters : metrics'[f] >= metrics[f]

C16_MetricsMonotonicity == [][CountersNonDecreasing]_vars

C16_Witness ==
    /\ Restarted
    /\ running
    /\ metrics.total_orders = 2
    /\ metrics.cancelled_orders = 1

\* C17. Percentile ordering: a snapshot of a buffer of n >= 1 samples reads
\* the ascending-sorted samples at the indices n/2, (95*n)/100 and (99*n)/100,
\* all below n (no index panics), and so p50 <= p95 <= p99.
Ascending(s) == \A i \in 1..(Len(s) - 1) : s[i] <= s[i + 1]

C17_PercentileOrdering ==
    (is_some(snapshot) /\ Len(latency_samples) >= 1) =>
        LET m == snapshot[1]
            n == Len(latency_samples)
        IN /\ ~m.panicked
           /\ Ascending(latency_samples)
           /\ n \div 2 < n /\ (95 * n) \div 100 < n /\ (99 * n) \div 100 < n
           /\ m.p50_latency_micros = latency_samples[(n \div 2) + 1]
           /\ m.p95_latency_micros = latency_samples[((95 * n) \div 100) + 1]
           /\ m.p99_latency_micros = latency_samples[((99 * n) \div 100) + 1]
           /\ m.p50_latency_micros <= m.p95_latency_micros
           /\ m.p95_latency_micros <= m.p99_latency_micros

C17_Witness ==
    /\ is_some(snapshot)
    /\ Len(latency_samples) = MaxSamples
    /\ snapshot[1].p50_latency_micros < snapshot[1].p95_latency_micros
    /\ snapshot[1].p95_latency_micros < snapshot[1].p99_latency_micros

\* C18. A trade the trade channel refuses is dropped and the command goes on:
\* the trades delivered are a subsequence of the trades produced, each
\* delivered at most once; every trade produced is counted in total_trades
\* and is in the orders' fills whether or not the channel took it; and every
\* NewOrder arm ran to its end (it left its latency sample).
RECURSIVE IsSubseq(_, _)
IsSubseq(s, t) ==
    IF s = <<>> THEN TRUE
    ELSE IF t = <<>> THEN FALSE
    ELSE IF Head(s) = Head(t) THEN IsSubseq(Tail(s), Tail(t))
    ELSE IsSubseq(s, Tail(t))

C18_TradeSinkFailure ==
    /\ IsSubseq(trade_sink, TradesOf(fill_log))
    /\ \A i, j \in 1..Len(trade_sink) : i # j => trade_sink[i] # trade_sink[j]
    /\ metrics.total_trades = Len(fill_log)
    /\ \A id \in DOMAIN ledger : ledger[id].filled_quantity = TradedQuantity(id)
    /\ Len(latency_samples) = next_id - 1

C18_Witness ==
    /\ Len(fill_log) = 2
    /\ trade_sink = <<fill_log[2].trade>>
    /\ \/ fill_log[1].trade.buy_order_id = fill_log[2].trade.buy_order_id
       \/ fill_log[1].trade.sell_order_id = fill_log[2].trade.sell_order_id
    /\ metrics.total_trades = 2

\* C19. A cancel of an unknown id or an unknown symbol is a silent success:
\* in every state, process_cancel on an id that rests in no ladder of the
\* named book, or on a symbol without a book, returns None and leaves the
\* metrics, every book and the set of books as they are.
UnknownCancel(order_id, symbol) ==
    \/ symbol \notin DOMAIN order_books
    \/ \A o \in RestingIn(order_books[symbol]) : o.id # order_id

C19_CancelUnknownSilent ==
    \A order_id \in 1..(MaxOrders + 1), symbol \in Symbols :
        UnknownCancel(order_id, symbol) =>
            LET r == process_cancel(order_id, symbol, order_books, metrics)
            IN /\ is_none(r.result)
               /\ r.metrics = metrics
               /\ r.books = order_books
               /\ DOMAIN r.books = DOMAIN order_books

C19_Witness ==
    /\ "BTCUSD" \in DOMAIN order_books
    /\ "ETHUSD" \notin DOMAIN order_books
    /\ RestingIn(order_books["BTCUSD"]) # {}
    /\ cancelled # {}
    /\ UnknownCancel(SetMin(cancelled), "BTCUSD")

\* C20. Price priority: every trade pairs the front order of the highest bid
\* level with the front order of the lowest ask level the book had at that
\* step, and the trades are listed in the order they were made: an incoming
\* buy trades with the resting asks from the lowest price upward, an
\* incoming sell with the resting bids from the highest price downward.
BestLevels(f) ==
    /\ f.bid_price = SetMax(f.bid_keys)
    /\ f.ask_price = SetMin(f.ask_keys)
    /\ f.bid_level[1] = f.bid_before.id
    /\ f.ask_level[1] = f.ask_before.id
    /\ f.trade.buy_order_id = f.bid_before.id
    /\ f.trade.sell_order_id = f.ask_before.id

SweepInOrder(f, g) ==
    /\ (/\ f.bid_before.id = g.bid_before.id
        /\ f.bid_before.id > f.ask_before.id
        /\ g.bid_before.id > g.ask_before.id) => f.ask_price <= g.ask_price
    /\ (/\ f.ask_before.id = g.ask_before.id
        /\ f.ask_before.id > f.bid_before.id
        /\ g.ask_before.id > g.bid_before.id) => f.bid_price >= g.bid_price

C20_PricePriority ==
    /\ \A i \in FillIndex : BestLevels(fill_log[i])
    /\ \A i, j \in FillIndex : i < j => SweepInOrder(fill_log[i], fill_log[j])

C20_Witness ==
    \E i \in FillIndex :
        /\ i + 1 \in FillIndex
        /\ fill_log[i].bid_before.id = fill_log[i + 1].bid_before.id
        /\ fill_log[i].bid_before.id > fill_log[i].ask_before.id
        /\ fill_log[i].ask_price < fill_log[i + 1].ask_price
        /\ fill_log[i].trade.price < fill_log[i + 1].trade.price
        /\ fill_log[i + 1].bid_after.status = "Filled"
        /\ fill_log[i + 1].ask_after.status = "PartiallyFilled"
        /\ remaining_quantity(fill_log[i + 1].ask_after) = 1

\* C21. As the unit test asserts: when a book holds one buy limit order and
\* one sell limit order priced at or below the buy, match_orders returns
\* exactly one trade, whose quantity is the minimum of the two remaining
\* quantities and whose price is the sell order's price.  Here the book held
\* one limit order and the command adds the other.
IsLimit(o) == o.order_type = "Limit" /\ is_some(o.price)

PairAtOrBelow(o, new) ==
    /\ IsLimit(o) /\ IsLimit(new)
    /\ o.side # new.side
    /\ LET buy == IF o.side = "Buy" THEN o ELSE new
           sell == IF o.side = "Sell" THEN o ELSE new
       IN sell.price[1] <= buy.price[1]

OneTradeAtAsk(o, new) ==
    LET sell == IF o.side = "Sell" THEN o ELSE new
        f == fill_log'[Len(fill_log')]
    IN /\ Len(fill_log') = Len(fill_log) + 1
       /\ f.trade.quantity = Min(remaining_quantity(o), new.quantity)
       /\ f.trade.price = sell.price[1]

TwoOrderStep ==
    (/\ next_id' = next_id + 1
     /\ ~rejects(ledger'[next_id])
     /\ ledger'[next_id].symbol \in DOMAIN order_books) =>
        LET new == ledger'[next_id]
            book == order_books[new.symbol]
        IN \A o \in RestingIn(book) :
             (RestingIn(book) = {o} /\ PairAtOrBelow(o, new)) => OneTradeAtAsk(o, new)

C21_UnitTestOneTrade == [][TwoOrderStep]_vars

\* C28. No trade violates a participant's limit: with only limit orders of
\* quantity > 0 accepted, every trade has quantity > 0, its buy order is a
\* Buy and its sell order a Sell, and its price is at most the buy order's
\* limit price and at least the sell order's limit price.
WithinLimits(f) ==
    /\ f.trade.quantity > 0
    /\ f.bid_before.side = "Buy" /\ f.trade.buy_order_id = f.bid_before.id
    /\ f.ask_before.side = "Sell" /\ f.trade.sell_order_id = f.ask_before.id
    /\ f.trade.price <= f.bid_before.price[1]
    /\ f.trade.price >= f.ask_before.price[1]

C28_TradeWithinLimits ==
    OnlyLimitOrders => \A i \in FillIndex : WithinLimits(fill_log[i])

\* C22. submit and cancel never block the caller: a producer that has passed
\* the running check and is at its send on the command queue always
\* completes its call, whether or not a worker is draining the queue.
AtSend(c) == callers[c].op \in {"submit", "cancel"} /\ callers[c].pc = "send"

C22_SubmitNeverBlocks ==
    \A c \in Producers : AtSend(c) ~> (callers[c].pc = "idle")

\* C23. Order books are independent: a NewOrder or CancelOrder command for
\* symbol S leaves the book (hence the ladders, best bid, best ask and depth)
\* of every other symbol unchanged; every book holds only orders of its own
\* symbol; every trade carries the symbol of the two orders it names.
OtherBooksUnchanged(S) ==
    \A s \in DOMAIN order_books :
        s # S => /\ s \in DOMAIN order_books'
                 /\ order_books'[s] = order_books[s]
                 /\ get_order_book(order_books', s) = get_order_book(order_books, s)

CommandSymbols ==
    (IF next_id' = next_id + 1 THEN {ledger'[next_id].symbol} ELSE {})
    \cup {ledger'[id].symbol : id \in cancelled' \ cancelled}

IndependentStep ==
    /\ \A S \in CommandSymbols : OtherBooksUnchanged(S)
    /\ CommandSymbols = {} => order_books' = order_books
    /\ \A i \in (Len(fill_log) + 1)..Len(fill_log') :
          fill_log'[i].trade.symbol \in CommandSymbols

BooksHoldOwnSymbol ==
    /\ \A s \in DOMAIN order_books :
          /\ order_books[s].symbol = s
          /\ \A o \in RestingIn(order_books[s]) : o.symbol = s
    /\ \A i \in FillIndex :
          /\ ledger[fill_log[i].trade.buy_order_id].symbol = fill_log[i].trade.symbol
          /\ ledger[fill_log[i].trade.sell_order_id].symbol = fill_log[i].trade.symbol

C23_BookIndependence == []BooksHoldOwnSymbol /\ [][IndependentStep]_vars

C23_Witness ==
    /\ DOMAIN order_books = Symbols
    /\ RestingIn(order_books["BTCUSD"]) # {}
    /\ \E i \in FillIndex : fill_log[i].trade.symbol = "ETHUSD"
    /\ \A i \in FillIndex : fill_log[i].trade.symbol = "ETHUSD"

\* C24. Single writer: at every moment at most one worker is alive (spawned
\* and not yet out of its loop), for every sequence of start() and stop()
\* calls.
Alive(w) == workers[w].pc \notin {"none", "exited"}

C24_SingleWriter == Cardinality({w \in Workers : Alive(w)}) <= 1

\* The status changes a step makes: of every order between the ledger before
\* and after, and of the two orders of every trade the step produced.
StatusMoves ==
    {<<ledger[id].status, ledger'[id].status>> : id \in DOMAIN ledger}
    \cup {<<fill_log'[i].bid_before.status, fill_log'[i].bid_after.status>> :
             i \in (Len(fill_log) + 1)..Len(fill_log')}
    \cup {<<fill_log'[i].ask_before.status, fill_log'[i].ask_after.status>> :
             i \in (Len(fill_log) + 1)..Len(fill_log')}

MovesWithin(allowed) == \A m \in StatusMoves : m[1] # m[2] => m \in allowed

PendingMoves ==
    {<<"Pending", "PartiallyFilled">>, <<"Pending", "Filled">>,
     <<"PartiallyFilled", "Filled">>, <<"Pending", "Cancelled">>,
     <<"Pending", "Rejected">>}

Decreasing(sizes) == \A i \in 1..(Len(sizes) - 1) : sizes[i + 1] < sizes[i]

TerminatesOn(book) ==
    LET r == match_orders(book)
    IN /\ ~r.cut
       /\ Decreasing(Append(r.sizes, book_size(r.book)))
       /\ NotCrossed(r.book)

C26_MatchTerminates == \A s \in DOMAIN order_books : TerminatesOn(order_books[s])

C26_Witness ==
    /\ cancelled # {}
    /\ \E s \in DOMAIN order_books :
          LET book == order_books[s]
              r == match_orders(book)
          IN /\ \E k \in DOMAIN book.bids \cup DOMAIN book.asks :
                   \/ (k \in DOMAIN book.bids /\ book.bids[k] = <<>>)
                   \/ (k \in DOMAIN book.asks /\ book.asks[k] = <<>>)
             /\ Len(r.sizes) >= 2
             /\ r.fills # <<>>

\* C27. Lock discipline: every thread acquires mutexes consistently with the
\* order metrics < latency-buffer < books (it never acquires a mutex of that
\* order while holding a later one, so never metrics or the latency buffer
\* while holding books), and holds no mutex while it performs a command-queue
\* receive or send or a trade send.
LockRank == [metrics |-> 1, latency_samples |-> 2, order_books |-> 3]

InLockOrder(t) ==
    (NextOp(t)[1] = "lock" /\ NextOp(t)[2] \in DOMAIN LockRank)
        => \A h \in Held(t) \cap DOMAIN LockRank : LockRank[h] < LockRank[NextOp(t)[2]]

NoLockAcrossChannel(t) == NextOp(t)[1] \in ChannelOps => Held(t) = {}

C27_LockDiscipline ==
    \A t \in LockThreads :
        (lock_threads[t] # NoScript /\ ~AtEnd(t))
            => InLockOrder(t) /\ NoLockAcrossChannel(t)

=============================================================================
